---------------------------- MODULE Spec2Model ----------------------------
(***************************************************************************)
(* Ledger engine of the banking API: account balances, transaction         *)
(* entries, installment credit and the settlement scheduler, over one      *)
(* PostgreSQL store (READ COMMITTED, row locks, CHECK constraints).        *)
(*                                                                         *)
(* Money is counted in whole units of the DECIMAL(15,2) quantum.  Each     *)
(* request handler and each scheduler run is a process; every database     *)
(* statement it issues is one step.  A statement issued through *sql.Tx    *)
(* is buffered until Commit and dropped by Rollback; a statement issued    *)
(* through *sql.DB is committed at once.                                   *)
(***************************************************************************)
EXTENDS Integers, Sequences, FiniteSets, TLC

(* ------------------------------ bounds -------------------------------- *)

\* concurrent request handlers / scheduler runs
NProc == 2
\* operations started in one behaviour
MaxOps == 3
\* injected store failures in one behaviour
MaxFaults == 1
\* months the clock may advance
MaxNow == 1

Procs == 1..NProc
Accounts == {1, 2, 3}
Users == {1, 2}
Cards == {1, 2}

\* accounts.user_id of each account, cards.user_id / cards.account_id
AccountOwner(a) == IF a = 1 THEN 1 ELSE 2
CardOwner(k) == k
CardAccount(k) == k

\* balances the accounts hold when the behaviour starts
InitBalances == {100}

\* the requests the handlers receive: <<account, amount, requester>>,
\* <<from, to, amount, requester>>, <<card, amount, requester>>,
\* <<account, principal, term, requester>>
DepositInputs == {<<1, 100, 1>>, <<2, 100, 2>>, <<3, 100, 2>>, <<1, 0, 2>>, <<1, 100, 2>>}
WithdrawInputs == {<<1, 100, 1>>, <<1, 200, 1>>, <<2, 100, 2>>, <<1, 0, 2>>, <<1, 100, 2>>}
TransferInputs == {<<1, 2, 100, 1>>, <<2, 1, 100, 2>>, <<1, 1, 100, 1>>,
                   <<1, 2, 0, 2>>, <<1, 2, 100, 2>>}
CardInputs == {<<1, 100, 1>>, <<1, 0, 1>>, <<1, 100, 2>>}
CreditInputs == {<<1, 100, 2, 1>>, <<1, 100, 2, 2>>}
\* manual credit payments: <<amount offered, requester>>
PaymentInputs == {<<100, 1>>, <<10, 1>>, <<100, 2>>}

\* what the central bank client returns: a key rate, or CbrError for a failed call
CbrError == -1
CbrResults == {CbrError, 22}

\* float64 values are carried in hundredths of the money unit, powers of
\* (1 + monthlyRate) in ten-thousandths
FloatScale == 100
PowScale == 10000

NoProc == 0
\* payment_schedules.paid_at IS NULL
Null == -1

VARIABLES
    balance,    \* accounts.balance, committed
    entries,    \* transactions table, committed, in insertion order
    credits,    \* credits table, committed: credit id -> row
    schedule,   \* payment_schedules table, committed: <<credit, number>> -> row
    lock,       \* row lock on each accounts row: the holding process or NoProc
    now,        \* the clock, in months
    pc,         \* position of each process
    req,        \* arguments of the call each process runs
    loc,        \* local variables of the call
    txDelta,    \* uncommitted balance changes of the process's open transaction
    txEntries,  \* uncommitted transactions rows of the open transaction
    result,     \* what the call returned
    effects,    \* row families the call has changed in the committed store
    nops,       \* operations started
    faults      \* store failures injected

vars == <<balance, entries, credits, schedule, lock, now, pc, req, loc,
          txDelta, txEntries, result, effects, nops, faults>>

store == <<balance, entries, credits, schedule>>


(* --------------------------- store primitives ------------------------- *)

ZeroDelta == [a \in Accounts |-> 0]

ReqNone == [op |-> "none", acc |-> 0, to |-> 0, amt |-> 0, user |-> 0,
            term |-> 0, id |-> 0]

LocNone == [bal |-> 0, rate |-> 0, monthly |-> 0, remaining |-> 0, i |-> 0,
            start |-> 0, queue |-> << >>, status |-> "none", last |-> "none",
            cbr |-> 0]

\* accounts: CHECK (balance >= 0)
BalanceCheckOff(b) == TRUE
BalanceCheck(b) == b >= 0

\* TransactionRepository.CreateTx runs its INSERT on the caller's *sql.Tx
TransactionRepoOnDb == FALSE
TransactionRepoUsesTx == TRUE

\* a transactions row
Entry(account, amount, kind, ref) ==
    [account |-> account, amount |-> amount, kind |-> kind, ref |-> ref]

\* reference ids: a fresh uuid of the call, a credit id, a payment id, a card id
OpRef(id) == <<"op", id, 0>>
CreditRef(c) == <<"credit", c, 0>>
PaymentRef(k) == <<"payment", k[1], k[2]>>
CardRef(k) == <<"card", k, 0>>

\* the row locks of p's transaction are released when it ends
Released(p) == [a \in Accounts |-> IF lock[a] = p THEN NoProc ELSE lock[a]]

\* ProcessPayments goes on to the next payment of its batch whatever
\* processPayment returned, and returns nil after the last one
MorePaymentsNone(p) == FALSE
MorePayments(p) == req[p].op = "sched" /\ Len(loc[p].queue) > 1

\* p's transaction ends and the call that opened it returns r
EndTx(p, r) ==
    /\ lock' = Released(p)
    /\ txDelta' = [txDelta EXCEPT ![p] = ZeroDelta]
    /\ txEntries' = [txEntries EXCEPT ![p] = << >>]
    /\ IF req[p].op \in {"sched", "pay"}
       THEN loc' = [loc EXCEPT ![p].queue = Tail(@), ![p].last = r]
       ELSE loc' = loc
    /\ pc' = [pc EXCEPT ![p] = IF MorePayments(p) THEN "pp_begin" ELSE "done"]
    /\ result' = [result EXCEPT ![p] = IF MorePayments(p) THEN @
                                       ELSE IF req[p].op = "sched" THEN "ok" ELSE r]

\* CardService.ProcessPayment returns r without rolling back: its deferred
\* function tests the outer err, which the failed statement's own err shadows.
\* The transaction stays open with its row locks until the request's context
\* is cancelled
Abandon(p, r) ==
    /\ pc' = [pc EXCEPT ![p] = "abandoned"]
    /\ result' = [result EXCEPT ![p] = r]
    /\ UNCHANGED <<lock, txDelta, txEntries, loc>>

\* defer tx.Rollback(): the buffered writes are dropped and the call returns r
Rollback(p, r) == IF req[p].op = "card" THEN Abandon(p, r) ELSE EndTx(p, r)

\* a store failure (connection loss, timeout, cancelled context) hits p's statement
StoreFails(p) ==
    /\ faults < MaxFaults
    /\ faults' = faults + 1
    /\ Rollback(p, "store_error")

\* p's call returns r before it opened a transaction
Return(p, r) ==
    /\ pc' = [pc EXCEPT ![p] = "done"]
    /\ result' = [result EXCEPT ![p] = r]

\* SET balance = balance + $1: what the transaction has added to the row so far
AbsoluteUpdate(delta, amount) == amount
RelativeUpdate(delta, amount) == delta + amount

\* AccountRepository.UpdateBalanceTx: UPDATE accounts SET balance = balance + $1
\* on p's transaction; waits for the row lock, then the CHECK decides
UpdateBalanceTx(p, id, amount, next) ==
    /\ lock[id] \in {NoProc, p}
    /\ \/ /\ IF BalanceCheck(balance[id] + RelativeUpdate(txDelta[p][id], amount))
             THEN /\ lock' = [lock EXCEPT ![id] = p]
                  /\ txDelta' = [txDelta EXCEPT ![p][id] = RelativeUpdate(@, amount)]
                  /\ pc' = [pc EXCEPT ![p] = next]
                  /\ UNCHANGED <<txEntries, result, loc>>
             ELSE Rollback(p, "constraint_violation")
          /\ UNCHANGED faults
       \/ StoreFails(p)
    /\ UNCHANGED <<store, now, req, effects, nops>>

\* what INSERT INTO transactions does to the table: the rows are added
InsertedReplacing(rows, new) == new
Inserted(rows, new) == rows \o new

\* TransactionRepository.CreateTx: INSERT INTO transactions
CreateTx(p, e, next) ==
    /\ \/ /\ IF TransactionRepoUsesTx
             THEN /\ txEntries' = [txEntries EXCEPT ![p] = Append(@, e)]
                  /\ UNCHANGED <<entries, effects>>
             ELSE /\ entries' = Inserted(entries, <<e>>)
                  /\ effects' = [effects EXCEPT ![p] = @ \cup {"entry"}]
                  /\ UNCHANGED txEntries
          /\ pc' = [pc EXCEPT ![p] = next]
          /\ UNCHANGED <<lock, txDelta, result, loc, faults>>
       \/ /\ StoreFails(p)
          /\ UNCHANGED <<entries, effects>>
    /\ UNCHANGED <<balance, credits, schedule, now, req, nops>>

\* row families a commit of p's transaction changes
CommitEffects(p) ==
    (IF txDelta[p] # ZeroDelta THEN {"balance"} ELSE {})
        \cup (IF txEntries[p] # << >> THEN {"entry"} ELSE {})

\* tx.Commit(): the buffered writes become visible together; a failed commit
\* ends the transaction as well
Commit(p) ==
    /\ \/ /\ balance' = [a \in Accounts |-> balance[a] + txDelta[p][a]]
          /\ entries' = Inserted(entries, txEntries[p])
          /\ effects' = [effects EXCEPT ![p] = @ \cup CommitEffects(p)]
          /\ EndTx(p, "ok")
          /\ UNCHANGED faults
       \/ /\ faults < MaxFaults
          /\ faults' = faults + 1
          /\ EndTx(p, "store_error")
          /\ UNCHANGED <<balance, entries, effects>>
    /\ UNCHANGED <<credits, schedule, now, req, nops>>

\* a handler or a scheduler run starts on an idle process
Begin(p, r) ==
    /\ pc[p] \in {"idle", "done"}
    /\ nops < MaxOps
    /\ nops' = nops + 1
    /\ req' = [req EXCEPT ![p] = [r EXCEPT !.id = nops + 1]]
    /\ effects' = [effects EXCEPT ![p] = {}]

\* the call goes on to its first statement inside the transaction
Proceed(p, next) ==
    /\ pc' = [pc EXCEPT ![p] = next]
    /\ result' = [result EXCEPT ![p] = "none"]

(* ------------------------------- Deposit ------------------------------ *)

\* the amount test at the top of Deposit, Withdraw and Transfer
AmountRefusedNever(amt) == FALSE
AmountRefused(amt) == amt <= 0

\* the owner test on the account row GetByID returned
IsOwnerAnyone(a, u) == TRUE
IsOwner(a, u) == AccountOwner(a) = u

\* the transactions row Deposit builds
DepositEntryNoAmount(a, amt, id) == Entry(a, 0, "deposit", OpRef(id))
DepositEntry(a, amt, id) == Entry(a, amt, "deposit", OpRef(id))

\* AccountService.Deposit up to BeginTx
DepositStart(p, a, amt, u) ==
    /\ Begin(p, [ReqNone EXCEPT !.op = "deposit", !.acc = a, !.amt = amt, !.user = u])
    /\ IF AmountRefused(amt) THEN Return(p, "validation")
       ELSE IF ~IsOwner(a, u) THEN Return(p, "not_owner")
       ELSE Proceed(p, "update")
    /\ loc' = [loc EXCEPT ![p] = LocNone]
    /\ UNCHANGED <<store, lock, now, txDelta, txEntries, faults>>

DepositUpdate(p) ==
    /\ req[p].op = "deposit" /\ pc[p] = "update"
    /\ UpdateBalanceTx(p, req[p].acc, req[p].amt, "insert")

DepositInsert(p) ==
    /\ req[p].op = "deposit" /\ pc[p] = "insert"
    /\ CreateTx(p, DepositEntry(req[p].acc, req[p].amt, req[p].id), "commit")

DepositCommit(p) ==
    /\ req[p].op = "deposit" /\ pc[p] = "commit"
    /\ Commit(p)

(* ------------------------------- Withdraw ----------------------------- *)

\* the balance test of Withdraw on the row GetByID returned
InsufficientFundsNever(bal, amt) == FALSE
InsufficientFunds(bal, amt) == bal < amt

\* AccountService.Withdraw up to BeginTx: the balance is read by GetByID
WithdrawStart(p, a, amt, u) ==
    /\ Begin(p, [ReqNone EXCEPT !.op = "withdraw", !.acc = a, !.amt = amt, !.user = u])
    /\ IF AmountRefused(amt) THEN Return(p, "validation")
       ELSE IF ~IsOwner(a, u) THEN Return(p, "not_owner")
       ELSE IF InsufficientFunds(balance[a], amt) THEN Return(p, "insufficient_funds")
       ELSE Proceed(p, "update")
    /\ loc' = [loc EXCEPT ![p] = LocNone]
    /\ UNCHANGED <<store, lock, now, txDelta, txEntries, faults>>

WithdrawUpdate(p) ==
    /\ req[p].op = "withdraw" /\ pc[p] = "update"
    /\ UpdateBalanceTx(p, req[p].acc, -req[p].amt, "insert")

WithdrawInsert(p) ==
    /\ req[p].op = "withdraw" /\ pc[p] = "insert"
    /\ CreateTx(p, Entry(req[p].acc, req[p].amt, "withdrawal", OpRef(req[p].id)), "commit")

WithdrawCommit(p) ==
    /\ req[p].op = "withdraw" /\ pc[p] = "commit"
    /\ Commit(p)

(* ------------------------------- Transfer ----------------------------- *)

\* the two transactions rows of a transfer: debit leg, credit leg
TransferEntriesOneLeg(from, to, amt, id) ==
    <<Entry(from, amt, "transfer", OpRef(id)), Entry(from, amt, "transfer", OpRef(id))>>
TransferEntries(from, to, amt, id) ==
    <<Entry(from, amt, "transfer", OpRef(id)), Entry(to, amt, "transfer", OpRef(id))>>

\* AccountService.Transfer up to BeginTx: the balance is read by GetByID
TransferStart(p, from, to, amt, u) ==
    /\ Begin(p, [ReqNone EXCEPT !.op = "transfer", !.acc = from, !.to = to,
                                !.amt = amt, !.user = u])
    /\ IF AmountRefused(amt) THEN Return(p, "validation")
       ELSE IF ~IsOwner(from, u) THEN Return(p, "not_owner")
       ELSE IF balance[from] < amt THEN Return(p, "insufficient_funds")
       ELSE Proceed(p, "update")
    /\ loc' = [loc EXCEPT ![p] = LocNone]
    /\ UNCHANGED <<store, lock, now, txDelta, txEntries, faults>>

TransferDebit(p) ==
    /\ req[p].op = "transfer" /\ pc[p] = "update"
    /\ UpdateBalanceTx(p, req[p].acc, -req[p].amt, "credit_leg")

TransferCredit(p) ==
    /\ req[p].op = "transfer" /\ pc[p] = "credit_leg"
    /\ UpdateBalanceTx(p, req[p].to, req[p].amt, "insert")

TransferInsertDebit(p) ==
    /\ req[p].op = "transfer" /\ pc[p] = "insert"
    /\ CreateTx(p, TransferEntries(req[p].acc, req[p].to, req[p].amt, req[p].id)[1], "insert2")

TransferInsertCredit(p) ==
    /\ req[p].op = "transfer" /\ pc[p] = "insert2"
    /\ CreateTx(p, TransferEntries(req[p].acc, req[p].to, req[p].amt, req[p].id)[2], "commit")

TransferCommit(p) ==
    /\ req[p].op = "transfer" /\ pc[p] = "commit"
    /\ Commit(p)

(* ----------------------------- card payment --------------------------- *)

\* CardService.ProcessPayment up to BeginTx: GetByIDAndUser finds the card
\* only for its owner
CardPaymentStart(p, k, amt, u) ==
    /\ Begin(p, [ReqNone EXCEPT !.op = "card", !.acc = CardAccount(k), !.to = k,
                                !.amt = amt, !.user = u])
    /\ IF amt <= 0 THEN Return(p, "validation")
       ELSE IF CardOwner(k) # u THEN Return(p, "not_found")
       ELSE Proceed(p, "update")
    /\ loc' = [loc EXCEPT ![p] = LocNone]
    /\ UNCHANGED <<store, lock, now, txDelta, txEntries, faults>>

CardPaymentUpdate(p) ==
    /\ req[p].op = "card" /\ pc[p] = "update"
    /\ UpdateBalanceTx(p, req[p].acc, -req[p].amt, "insert")

CardPaymentInsert(p) ==
    /\ req[p].op = "card" /\ pc[p] = "insert"
    /\ CreateTx(p, Entry(req[p].acc, req[p].amt, "card_payment", CardRef(req[p].to)), "commit")

CardPaymentCommit(p) ==
    /\ req[p].op = "card" /\ pc[p] = "commit"
    /\ Commit(p)

\* the handler has returned: r.Context() is cancelled and database/sql rolls
\* the abandoned transaction back
CardContextDone(p) ==
    /\ pc[p] = "abandoned"
    /\ lock' = Released(p)
    /\ txDelta' = [txDelta EXCEPT ![p] = ZeroDelta]
    /\ txEntries' = [txEntries EXCEPT ![p] = << >>]
    /\ pc' = [pc EXCEPT ![p] = "done"]
    /\ UNCHANGED <<store, now, req, loc, result, effects, nops, faults>>

(* --------------------------- credit issuance -------------------------- *)

\* math.Pow(1+monthlyRate, n) with monthlyRate = rate / 12 / 100
RECURSIVE PowFix(_, _)
PowFix(rate, n) ==
    IF n = 0 THEN PowScale ELSE (PowFix(rate, n - 1) * (1200 + rate)) \div 1200

\* CreditService.CalculateMonthlyPayment, in hundredths of the money unit
CalculateMonthlyPayment(amount, termMonths, interestRate) ==
    LET pow == PowFix(interestRate, termMonths)
        num == amount * interestRate * pow
        den == 1200 * (pow - PowScale)
    IN  (num \div den) * FloatScale + ((num % den) * FloatScale) \div den

\* a float64 value stored into a DECIMAL(15,2) column
RoundMoney(x) ==
    IF x >= 0 THEN (x + FloatScale \div 2) \div FloatScale
    ELSE -((FloatScale \div 2 - x) \div FloatScale)

\* rate = 22.0 when the central bank call fails; interestRate = rate + 5.0
InterestRateFails(cbr) == (IF cbr = CbrError THEN Null ELSE cbr) + 5
InterestRate(cbr) == (IF cbr = CbrError THEN 22 ELSE cbr) + 5

\* interest := remainingPrincipal * monthlyRate
InterestPart(remaining, rate) == (remaining * rate) \div 1200

\* principal := credit.MonthlyPayment - interest, the remaining principal on
\* the last installment
PrincipalPart(remaining, monthly, rate, i, term) ==
    IF i = term THEN remaining ELSE monthly - InterestPart(remaining, rate)

\* the payment_schedules row generatePaymentSchedule inserts in iteration i
ScheduleRow(remaining, monthly, rate, i, term, start) ==
    [amount |-> RoundMoney(monthly),
     principal |-> RoundMoney(PrincipalPart(remaining, monthly, rate, i, term)),
     interest |-> RoundMoney(InterestPart(remaining, rate)),
     due |-> start + i, status |-> "pending", paidAt |-> Null]

\* the credits row CreateCredit builds
CreditRow(a, u, amount, term, rate, monthly, start) ==
    [account |-> a, user |-> u, amount |-> amount, rate |-> rate, term |-> term,
     monthly |-> RoundMoney(monthly), start |-> start, status |-> "active"]

\* CreditService.CreateCredit up to BeginTx
CreditStart(p, a, amount, term, u, cbr) ==
    /\ Begin(p, [ReqNone EXCEPT !.op = "credit", !.acc = a, !.amt = amount,
                                !.term = term, !.user = u])
    /\ IF ~IsOwner(a, u)
       THEN /\ Return(p, "not_owner")
            /\ loc' = [loc EXCEPT ![p] = LocNone]
       ELSE /\ Proceed(p, "update")
            /\ loc' = [loc EXCEPT ![p] =
                   [LocNone EXCEPT !.cbr = cbr, !.rate = InterestRate(cbr),
                        !.monthly = CalculateMonthlyPayment(amount, term, InterestRate(cbr)),
                        !.remaining = amount * FloatScale, !.i = 1,
                        !.start = now]]
    /\ UNCHANGED <<store, lock, now, txDelta, txEntries, faults>>

\* s.accountRepo.UpdateBalanceTx(ctx, tx, req.AccountID, req.Amount)
CreditUpdate(p) ==
    /\ req[p].op = "credit" /\ pc[p] = "update"
    /\ UpdateBalanceTx(p, req[p].acc, req[p].amt, "credit_insert")

\* s.creditRepo.CreateCredit(ctx, credit): INSERT INTO credits on r.db,
\* committed at once
CreditInsert(p) ==
    /\ req[p].op = "credit" /\ pc[p] = "credit_insert"
    /\ \/ /\ credits' = credits @@ (req[p].id :>
                 CreditRow(req[p].acc, req[p].user, req[p].amt, req[p].term,
                           loc[p].rate, loc[p].monthly, loc[p].start))
          /\ effects' = [effects EXCEPT ![p] = @ \cup {"credit"}]
          /\ pc' = [pc EXCEPT ![p] = "schedule"]
          /\ UNCHANGED <<lock, txDelta, txEntries, result, loc, faults>>
       \/ /\ StoreFails(p)
          /\ UNCHANGED <<credits, effects>>
    /\ UNCHANGED <<balance, entries, schedule, now, req, nops>>

\* for i := 1; i <= credit.TermMonths; i++: iteration i was the last one
ScheduleDoneEarly(i, term) == i >= term - 1
ScheduleDone(i, term) == i = term

\* one iteration of generatePaymentSchedule: CreatePaymentSchedule inserts
\* the row on r.db, committed at once
CreditSchedule(p) ==
    /\ req[p].op = "credit" /\ pc[p] = "schedule"
    /\ \/ /\ schedule' = schedule @@ (<<req[p].id, loc[p].i>> :>
                 ScheduleRow(loc[p].remaining, loc[p].monthly, loc[p].rate,
                             loc[p].i, req[p].term, loc[p].start))
          /\ effects' = [effects EXCEPT ![p] = @ \cup {"schedule"}]
          /\ loc' = [loc EXCEPT
                 ![p].remaining = @ - PrincipalPart(loc[p].remaining, loc[p].monthly,
                                                    loc[p].rate, loc[p].i, req[p].term),
                 ![p].i = @ + 1]
          /\ pc' = [pc EXCEPT ![p] =
                 IF ScheduleDone(loc[p].i, req[p].term) THEN "insert" ELSE "schedule"]
          /\ UNCHANGED <<lock, txDelta, txEntries, result, faults>>
       \/ /\ StoreFails(p)
          /\ UNCHANGED <<schedule, effects>>
    /\ UNCHANGED <<balance, entries, credits, now, req, nops>>

CreditEntry(p) ==
    /\ req[p].op = "credit" /\ pc[p] = "insert"
    /\ CreateTx(p, Entry(req[p].acc, req[p].amt, "credit", CreditRef(req[p].id)), "commit")

CreditCommit(p) ==
    /\ req[p].op = "credit" /\ pc[p] = "commit"
    /\ Commit(p)

(* ------------------------------ settlement ---------------------------- *)

\* payment_schedules rows in the order of ORDER BY payment_date
PaidBefore(k1, k2) ==
    \/ schedule[k1].due < schedule[k2].due
    \/ /\ schedule[k1].due = schedule[k2].due
       /\ \/ k1[1] < k2[1]
          \/ k1[1] = k2[1] /\ k1[2] < k2[2]

RECURSIVE SortByDate(_)
SortByDate(ks) ==
    IF ks = {} THEN << >>
    ELSE LET k == CHOOSE x \in ks : \A y \in ks \ {x} : PaidBefore(x, y)
         IN  <<k>> \o SortByDate(ks \ {k})

\* the WHERE clause of GetPendingPayments
PendingFilterNoDate(k, before) == schedule[k].status = "pending"
PendingFilterNoStatus(k, before) == schedule[k].due <= before
PendingFilter(k, before) == schedule[k].status = "pending" /\ schedule[k].due <= before

\* CreditRepository.GetPendingPayments
GetPendingPayments(before) ==
    SortByDate({k \in DOMAIN schedule : PendingFilter(k, before)})

\* CreditRepository.GetPaymentSchedule: the rows of one credit
GetPaymentSchedule(c) == {k \in DOMAIN schedule : k[1] = c}

\* CreditService.GetNextPayment: the first pending row by payment_number
PendingOf(c) == {k \in GetPaymentSchedule(c) : schedule[k].status = "pending"}
GetNextPaymentLast(c) == CHOOSE k \in PendingOf(c) : \A x \in PendingOf(c) : k[2] >= x[2]
GetNextPayment(c) == CHOOSE k \in PendingOf(c) : \A x \in PendingOf(c) : k[2] <= x[2]

\* the payment p's processPayment works on, and its credit's account
Payment(p) == Head(loc[p].queue)
PaymentAccount(p) == credits[Payment(p)[1]].account

\* penalty = payment.Amount * 0.1, and the amount of the transactions row
EntryAmountWithPenalty(amount, status) ==
    RoundMoney(amount * FloatScale + (amount * FloatScale) \div 10)

EntryAmountNoPenalty(amount, status) == amount

EntryAmount(amount, status) ==
    IF status = "paid" THEN amount
    ELSE RoundMoney(amount * FloatScale + (amount * FloatScale) \div 10)

\* allPaid of processPayment, over the rows GetPaymentSchedule returned
AllPaid(c, k) == \A x \in GetPaymentSchedule(c) : schedule[x].status = "paid" \/ x = k

\* CreditService.ProcessPayments: the due query; an empty batch returns nil
SchedulerStart(p) ==
    /\ Begin(p, [ReqNone EXCEPT !.op = "sched"])
    /\ loc' = [loc EXCEPT ![p] = [LocNone EXCEPT !.queue = GetPendingPayments(now)]]
    /\ IF GetPendingPayments(now) = << >> THEN Return(p, "ok") ELSE Proceed(p, "pp_begin")
    /\ UNCHANGED <<store, lock, now, txDelta, txEntries, faults>>

\* CreditHandler.MakePayment up to the call of processPayment: the credit's
\* owner is checked, GetNextPayment picks the row, ProcessPayment compares
\* the offered amount with the row's amount
ManualPaymentStart(p, c, amt, u) ==
    /\ Begin(p, [ReqNone EXCEPT !.op = "pay", !.acc = c, !.amt = amt, !.user = u])
    /\ IF credits[c].user # u
       THEN Return(p, "not_owner") /\ loc' = [loc EXCEPT ![p] = LocNone]
       ELSE IF PendingOf(c) = {}
       THEN Return(p, "no_pending") /\ loc' = [loc EXCEPT ![p] = LocNone]
       ELSE IF amt < schedule[GetNextPayment(c)].amount
       THEN Return(p, "amount_too_small") /\ loc' = [loc EXCEPT ![p] = LocNone]
       ELSE /\ Proceed(p, "pp_begin")
            /\ loc' = [loc EXCEPT ![p] = [LocNone EXCEPT !.queue = <<GetNextPayment(c)>>]]
    /\ UNCHANGED <<store, lock, now, txDelta, txEntries, faults>>

\* processPayment: GetCreditByID and BeginTx
PaymentBegin(p) ==
    /\ pc[p] = "pp_begin"
    /\ pc' = [pc EXCEPT ![p] = "pp_lock"]
    /\ loc' = [loc EXCEPT ![p].last = "none", ![p].status = "none", ![p].bal = 0]
    /\ effects' = [effects EXCEPT ![p] = {}]
    /\ UNCHANGED <<store, lock, now, req, txDelta, txEntries, result, nops, faults>>

\* GetByIDForUpdate: SELECT ... FOR UPDATE waits for the row lock and reads
\* the balance; the comparison with payment.Amount picks the branch
PaymentLock(p) ==
    /\ pc[p] = "pp_lock"
    /\ lock[PaymentAccount(p)] \in {NoProc, p}
    /\ \/ /\ lock' = [lock EXCEPT ![PaymentAccount(p)] = p]
          /\ loc' = [loc EXCEPT ![p].bal = balance[PaymentAccount(p)],
                 ![p].status = IF balance[PaymentAccount(p)] >= schedule[Payment(p)].amount
                               THEN "paid" ELSE "overdue"]
          /\ pc' = [pc EXCEPT ![p] =
                 IF balance[PaymentAccount(p)] >= schedule[Payment(p)].amount
                 THEN "pp_debit" ELSE "pp_status"]
          /\ UNCHANGED <<txDelta, txEntries, result, faults>>
       \/ StoreFails(p)
    /\ UNCHANGED <<store, now, req, effects, nops>>

\* s.accountRepo.UpdateBalanceTx(ctx, tx, account.ID, -payment.Amount)
PaymentDebit(p) ==
    /\ pc[p] = "pp_debit"
    /\ UpdateBalanceTx(p, PaymentAccount(p), -schedule[Payment(p)].amount, "pp_status")

\* s.creditRepo.UpdatePaymentStatus: UPDATE payment_schedules on r.db,
\* committed at once
PaymentStatus(p) ==
    /\ pc[p] = "pp_status"
    /\ \/ /\ schedule' = [schedule EXCEPT ![Payment(p)].status = loc[p].status,
                 ![Payment(p)].paidAt = IF loc[p].status = "paid" THEN now ELSE Null]
          /\ effects' = [effects EXCEPT ![p] = @ \cup {"payment_status"}]
          /\ pc' = [pc EXCEPT ![p] = IF loc[p].status = "paid" THEN "pp_check" ELSE "pp_insert"]
          /\ UNCHANGED <<lock, txDelta, txEntries, result, loc, faults>>
       \/ /\ StoreFails(p)
          /\ UNCHANGED <<schedule, effects>>
    /\ UNCHANGED <<balance, entries, credits, now, req, nops>>

\* s.creditRepo.GetPaymentSchedule and the allPaid loop
PaymentCheck(p) ==
    /\ pc[p] = "pp_check"
    /\ pc' = [pc EXCEPT ![p] =
           IF AllPaid(Payment(p)[1], Payment(p)) THEN "pp_credit" ELSE "pp_insert"]
    /\ UNCHANGED <<store, lock, now, req, loc, txDelta, txEntries, result, effects,
                   nops, faults>>

\* CreditRepository.UpdateCreditStatus: UPDATE credits SET status = $1 WHERE id = $2
UpdateCreditStatusReopens(c, status) ==
    [credits EXCEPT ![c].status = IF @ = "paid" THEN "active" ELSE status]
UpdateCreditStatus(c, status) == [credits EXCEPT ![c].status = status]

\* s.creditRepo.UpdateCreditStatus(ctx, credit.ID, "paid") on r.db
PaymentCreditStatus(p) ==
    /\ pc[p] = "pp_credit"
    /\ \/ /\ credits' = UpdateCreditStatus(Payment(p)[1], "paid")
          /\ effects' = [effects EXCEPT ![p] = @ \cup {"credit_status"}]
          /\ pc' = [pc EXCEPT ![p] = "pp_insert"]
          /\ UNCHANGED <<lock, txDelta, txEntries, result, loc, faults>>
       \/ /\ StoreFails(p)
          /\ UNCHANGED <<credits, effects>>
    /\ UNCHANGED <<balance, entries, schedule, now, req, nops>>

PaymentEntry(p) ==
    /\ pc[p] = "pp_insert"
    /\ CreateTx(p, Entry(PaymentAccount(p),
                         EntryAmount(schedule[Payment(p)].amount, loc[p].status),
                         "credit_payment", PaymentRef(Payment(p))), "pp_commit")

PaymentCommit(p) ==
    /\ pc[p] = "pp_commit"
    /\ Commit(p)

(* ------------------------------ environment --------------------------- *)

\* a month passes; the clock starts with the first credit
Tick ==
    /\ now < MaxNow
    /\ credits # << >>
    /\ now' = now + 1
    /\ UNCHANGED <<store, lock, pc, req, loc, txDelta, txEntries, result, effects,
                   nops, faults>>

\* the accounts row the next statement of p has to lock, 0 if none
NeedsLock(p) ==
    IF pc[p] = "update" THEN req[p].acc
    ELSE IF pc[p] = "credit_leg" THEN req[p].to
    ELSE IF pc[p] \in {"pp_lock", "pp_debit"} THEN PaymentAccount(p)
    ELSE 0

\* p's statement waits for a row lock another transaction holds
Blocked(p) == NeedsLock(p) # 0 /\ lock[NeedsLock(p)] \notin {NoProc, p}
WaitsFor(p) == lock[NeedsLock(p)]
MutualWait(p, q) == Blocked(p) /\ WaitsFor(p) = q /\ Blocked(q) /\ WaitsFor(q) = p

\* PostgreSQL's deadlock detector aborts one transaction of the cycle: its
\* statement fails and the deferred Rollback runs
DeadlockDetected(p) ==
    /\ \E q \in Procs \ {p} : MutualWait(p, q)
    /\ Rollback(p, "deadlock")
    /\ UNCHANGED <<store, now, req, effects, nops, faults>>

(* ---------------------------- specification --------------------------- *)

Init ==
    /\ balance \in [Accounts -> InitBalances]
    /\ entries = << >>
    /\ credits = << >>
    /\ schedule = << >>
    /\ lock = [a \in Accounts |-> NoProc]
    /\ now = 0
    /\ pc = [p \in Procs |-> "idle"]
    /\ req = [p \in Procs |-> ReqNone]
    /\ loc = [p \in Procs |-> LocNone]
    /\ txDelta = [p \in Procs |-> ZeroDelta]
    /\ txEntries = [p \in Procs |-> << >>]
    /\ result = [p \in Procs |-> "none"]
    /\ effects = [p \in Procs |-> {}]
    /\ nops = 0
    /\ faults = 0

Next ==
    \/ \E p \in Procs :
        \/ \E i \in DepositInputs : DepositStart(p, i[1], i[2], i[3])
        \/ DepositUpdate(p)
        \/ DepositInsert(p)
        \/ DepositCommit(p)
        \/ \E i \in WithdrawInputs : WithdrawStart(p, i[1], i[2], i[3])
        \/ WithdrawUpdate(p)
        \/ WithdrawInsert(p)
        \/ WithdrawCommit(p)
        \/ \E i \in TransferInputs : TransferStart(p, i[1], i[2], i[3], i[4])
        \/ TransferDebit(p)
        \/ TransferCredit(p)
        \/ TransferInsertDebit(p)
        \/ TransferInsertCredit(p)
        \/ TransferCommit(p)
        \/ \E i \in CardInputs : CardPaymentStart(p, i[1], i[2], i[3])
        \/ CardPaymentUpdate(p)
        \/ CardPaymentInsert(p)
        \/ CardPaymentCommit(p)
        \/ CardContextDone(p)
        \/ \E i \in CreditInputs, cbr \in CbrResults :
               CreditStart(p, i[1], i[2], i[3], i[4], cbr)
        \/ CreditUpdate(p)
        \/ CreditInsert(p)
        \/ CreditSchedule(p)
        \/ CreditEntry(p)
        \/ CreditCommit(p)
        \/ SchedulerStart(p)
        \/ \E c \in DOMAIN credits, i \in PaymentInputs :
               ManualPaymentStart(p, c, i[1], i[2])
        \/ PaymentBegin(p)
        \/ PaymentLock(p)
        \/ PaymentDebit(p)
        \/ PaymentStatus(p)
        \/ PaymentCheck(p)
        \/ PaymentCreditStatus(p)
        \/ PaymentEntry(p)
        \/ PaymentCommit(p)
        \/ DeadlockDetected(p)
    \/ Tick

Spec == Init /\ [][Next]_vars

(* ------------------------------- claims ------------------------------- *)

\* the positions of the transactions rows with a reference id, and of the
\* rows of one kind on one account
EntriesWithRef(ref) == {i \in DOMAIN entries : entries[i].ref = ref}
EntriesOfKind(kind, a) ==
    {i \in DOMAIN entries : entries[i].kind = kind /\ entries[i].account = a}

\* C1: in every reachable committed state every account's balance is >= 0,
\* under any interleaving of deposits, withdrawals, transfers, card payments,
\* credit issuance and settlement.
C1_NonNegativeBalance == \A a \in Accounts : balance[a] >= 0

\* a debit that would have overdrawn an emptied account was refused by the CHECK
C1_Witness ==
    \E p \in Procs : result[p] = "constraint_violation" /\ balance[req[p].acc] = 0

\* C2: a committed Transfer of A from X to a different Y lowers X by exactly A,
\* raises Y by exactly A, changes no other account, and appends exactly two
\* transfer rows (one on X, one on Y, both of amount A) that share one fresh
\* reference id.
C2_CommitsTransfer(p) ==
    /\ req[p].op = "transfer" /\ req[p].acc # req[p].to
    /\ pc[p] = "commit" /\ pc'[p] = "done" /\ result'[p] = "ok"

C2_TransferConservation ==
    [][\A p \in Procs : C2_CommitsTransfer(p) =>
          /\ balance'[req[p].acc] = balance[req[p].acc] - req[p].amt
          /\ balance'[req[p].to] = balance[req[p].to] + req[p].amt
          /\ \A a \in Accounts \ {req[p].acc, req[p].to} : balance'[a] = balance[a]
          /\ entries' = entries \o
                 <<Entry(req[p].acc, req[p].amt, "transfer", OpRef(req[p].id)),
                   Entry(req[p].to, req[p].amt, "transfer", OpRef(req[p].id))>>
          /\ \A i \in DOMAIN entries : entries[i].ref # OpRef(req[p].id)
          /\ credits' = credits /\ schedule' = schedule]_vars

\* a transfer between two different accounts has committed
C2_Witness ==
    \E p \in Procs :
        /\ req[p].op = "transfer" /\ req[p].acc # req[p].to
        /\ pc[p] = "done" /\ result[p] = "ok"
        /\ Cardinality(EntriesWithRef(OpRef(req[p].id))) = 2

\* C4: when every process ran one Withdraw of the same amount A by the owner
\* on the same account, whose balance was exactly A, and no store failure
\* occurred, exactly one of them succeeded, the balance is 0 and exactly one
\* withdrawal row exists.
C4_Succeeded == {p \in Procs : result[p] = "ok"}

C4_Race(a, amt) ==
    /\ nops = NProc /\ faults = 0 /\ NProc >= 2
    /\ \A p \in Procs :
          /\ req[p].op = "withdraw" /\ pc[p] = "done"
          /\ req[p].acc = a /\ req[p].amt = amt /\ req[p].user = AccountOwner(a)
    /\ balance[a] + amt * Cardinality(C4_Succeeded) = amt

C4_ExactlyOneWithdrawal ==
    \A a \in Accounts, amt \in {i[2] : i \in WithdrawInputs} :
        C4_Race(a, amt) =>
            /\ Cardinality(C4_Succeeded) = 1
            /\ balance[a] = 0
            /\ Cardinality(EntriesOfKind("withdrawal", a)) = 1

\* the withdrawals overlapped: the loser passed the balance check of
\* GetByID and was refused by the store
C4_Witness ==
    \E a \in Accounts, amt \in {i[2] : i \in WithdrawInputs} :
        /\ C4_Race(a, amt)
        /\ \E p \in Procs : result[p] = "constraint_violation"

\* C7: a Transfer that has not returned success has changed no balance and
\* written no transfer row, whichever step failed.
C7_TransferAllOrNothing ==
    \A p \in Procs :
        (req[p].op = "transfer" /\ result[p] # "ok") =>
            /\ effects[p] = {}
            /\ EntriesWithRef(OpRef(req[p].id)) = {}

\* a Transfer failed on a statement of its transaction or on the commit
C7_Witness ==
    \E p \in Procs :
        /\ req[p].op = "transfer" /\ pc[p] = "done"
        /\ result[p] \in {"store_error", "constraint_violation", "deadlock"}

\* C3: a pending installment is charged at most once even when two settlement
\* executions for it overlap (two scheduler runs, or a scheduler run and a
\* manual payment): at most one debit of the installment amount and at most
\* one credit_payment row referencing the installment are committed.
C3_Entries(k) ==
    {i \in EntriesWithRef(PaymentRef(k)) : entries[i].kind = "credit_payment"}

\* the rows of the branch that debited carry the amount without a penalty,
\* and are committed together with the debit
C3_Debits(k) == {i \in C3_Entries(k) : entries[i].amount = schedule[k].amount}

C3_ChargedAtMostOnce ==
    \A k \in DOMAIN schedule :
        /\ Cardinality(C3_Debits(k)) <= 1
        /\ Cardinality(C3_Entries(k)) <= 1

\* C5: a CreateCredit that returned an error has left no credits row, no
\* payment_schedules row, no credit row in transactions and no balance change.
C5_CreditAllOrNothing ==
    \A p \in Procs :
        (req[p].op = "credit" /\ pc[p] = "done" /\ result[p] # "ok") =>
            /\ req[p].id \notin DOMAIN credits
            /\ GetPaymentSchedule(req[p].id) = {}
            /\ EntriesWithRef(CreditRef(req[p].id)) = {}
            /\ "balance" \notin effects[p]

\* C6: a processPayment that returned an error has left the installment's
\* status and paid_at, the credit's status, the account balance and the
\* transactions rows as they were before the call.
C6_PaymentAllOrNothing ==
    \A p \in Procs :
        (req[p].op \in {"sched", "pay"} /\ loc[p].last \notin {"none", "ok"}) =>
            effects[p] = {}

\* C8: when settlement executions do not overlap (each starts after the
\* previous one has finished), scheduler runs over the same due installments
\* debit each installment's amount from its account at most once.
SettlementRunning(q) ==
    pc[q] \in {"pp_begin", "pp_lock", "pp_debit", "pp_status", "pp_check",
               "pp_credit", "pp_insert", "pp_commit"}

\* a cron firing or a payment request that arrives while no settlement runs
SeqSchedulerStart(p) ==
    /\ \A q \in Procs : ~SettlementRunning(q)
    /\ SchedulerStart(p)

SeqManualPaymentStart(p, c, amt, u) ==
    /\ \A q \in Procs : ~SettlementRunning(q)
    /\ ManualPaymentStart(p, c, amt, u)

NextSeq ==
    \/ \E p \in Procs :
        \/ \E i \in DepositInputs : DepositStart(p, i[1], i[2], i[3])
        \/ DepositUpdate(p)
        \/ DepositInsert(p)
        \/ DepositCommit(p)
        \/ \E i \in WithdrawInputs : WithdrawStart(p, i[1], i[2], i[3])
        \/ WithdrawUpdate(p)
        \/ WithdrawInsert(p)
        \/ WithdrawCommit(p)
        \/ \E i \in CreditInputs, cbr \in CbrResults :
               CreditStart(p, i[1], i[2], i[3], i[4], cbr)
        \/ CreditUpdate(p)
        \/ CreditInsert(p)
        \/ CreditSchedule(p)
        \/ CreditEntry(p)
        \/ CreditCommit(p)
        \/ SeqSchedulerStart(p)
        \/ \E c \in DOMAIN credits, i \in PaymentInputs :
               SeqManualPaymentStart(p, c, i[1], i[2])
        \/ PaymentBegin(p)
        \/ PaymentLock(p)
        \/ PaymentDebit(p)
        \/ PaymentStatus(p)
        \/ PaymentCheck(p)
        \/ PaymentCreditStatus(p)
        \/ PaymentEntry(p)
        \/ PaymentCommit(p)
    \/ Tick

SpecSeq == Init /\ [][NextSeq]_vars

C8_SequentialRunsDebitOnce ==
    \A k \in DOMAIN schedule :
        Cardinality({i \in DOMAIN entries :
            /\ entries[i].kind = "credit_payment"
            /\ entries[i].ref = PaymentRef(k)
            /\ entries[i].amount = schedule[k].amount}) <= 1

\* a scheduler run debited a due installment, and a later run, started on
\* another process after that one, has finished as well
C8_Witness ==
    \E p \in Procs, q \in Procs, k \in DOMAIN schedule :
        /\ req[p].op = "sched" /\ pc[p] = "done"
        /\ req[q].op = "sched" /\ pc[q] = "done"
        /\ req[p].id < req[q].id
        /\ schedule[k].due <= now /\ schedule[k].status = "paid"
        /\ Cardinality(C3_Debits(k)) = 1

\* C9: two concurrent Transfers in opposite directions between the same two
\* accounts never reach a state in which each waits for a row lock the other
\* holds.
C9_OppositeTransfers(p, q) ==
    /\ p # q
    /\ req[p].op = "transfer" /\ req[q].op = "transfer"
    /\ req[p].acc # req[p].to
    /\ req[p].acc = req[q].to /\ req[p].to = req[q].acc

C9_NoMutualWait ==
    \A p \in Procs, q \in Procs : C9_OppositeTransfers(p, q) => ~MutualWait(p, q)

\* C10: in Withdraw and in Transfer no other operation changes the source
\* account's balance between the sufficient-funds check and the debit.
C10_CheckedNotYetDebited(p) ==
    /\ req[p].op \in {"withdraw", "transfer"}
    /\ pc[p] = "update" /\ pc'[p] = "update"

C10_BalanceStableUntilDebit ==
    [][\A p \in Procs : C10_CheckedNotYetDebited(p) =>
          balance'[req[p].acc] = balance[req[p].acc]]_vars

\* C11: a Withdraw or Transfer rejected because the source balance is smaller
\* than the amount when the debit is attempted returns the insufficient-funds
\* error, never a constraint-violation error of the store.
C11_DebitRefused(p) ==
    /\ req[p].op \in {"withdraw", "transfer"}
    /\ pc[p] = "done"
    /\ result[p] \in {"insufficient_funds", "constraint_violation"}

C11_InsufficientFundsIsDistinct ==
    \A p \in Procs : C11_DebitRefused(p) => result[p] = "insufficient_funds"


\* C12: every step that changes a committed balance appends, in the same
\* step, the transactions row of that change: one new row on each account
\* whose balance changed, of the amount of the change, and at most two rows
\* (a transfer) altogether; no earlier row is touched.
C12_NewEntries == {i \in DOMAIN entries' : i > Len(entries)}

C12_Abs(x) == IF x < 0 THEN -x ELSE x

C12_BalanceChangeHasEntry ==
    [][(balance' # balance) =>
          /\ SubSeq(entries', 1, Len(entries)) = entries
          /\ Cardinality(C12_NewEntries) \in {1, 2}
          /\ \A a \in Accounts : balance'[a] # balance[a] =>
                Cardinality({i \in C12_NewEntries :
                    /\ entries'[i].account = a
                    /\ entries'[i].amount = C12_Abs(balance'[a] - balance[a])}) = 1]_vars

\* one call failed in the middle of its transaction, after its balance
\* update, while another call's balance change was committed with its row
C12_Witness ==
    \E p \in Procs, q \in Procs :
        /\ p # q
        /\ result[p] = "store_error" /\ req[p].op \in {"deposit", "card", "credit"}
        /\ EntriesWithRef(OpRef(req[p].id)) = {}
        /\ result[q] = "ok" /\ pc[q] = "done" /\ req[q].op = "deposit"
        /\ "balance" \in effects[q] /\ EntriesWithRef(OpRef(req[q].id)) # {}


\* C13: in every committed state each credits row has exactly term_months
\* payment_schedules rows, numbered 1..term_months.
C13_PaymentNumbers(c) == {k[2] : k \in GetPaymentSchedule(c)}

C13_ScheduleComplete ==
    \A c \in DOMAIN credits : C13_PaymentNumbers(c) = 1..credits[c].term


(* ---------------- credit issuance on its own: the schedule ------------- *)

\* requests <<account, principal, term, requester>>; amounts count the
\* smallest stored unit, 0.01 of the currency (DECIMAL(15, 2))
IssueInputs == {<<1, 100, 2, 1>>, <<1, 550, 3, 1>>, <<2, 250, 6, 2>>, <<1, 200, 6, 2>>}

NextIssue ==
    \E p \in Procs :
        \/ \E i \in IssueInputs, cbr \in CbrResults :
               CreditStart(p, i[1], i[2], i[3], i[4], cbr)
        \/ CreditUpdate(p)
        \/ CreditInsert(p)
        \/ CreditSchedule(p)
        \/ CreditEntry(p)
        \/ CreditCommit(p)

SpecIssue == Init /\ [][NextIssue]_vars

\* the credits whose schedule generation has inserted its last row
ScheduleGenerated(c) ==
    /\ c \in DOMAIN credits
    /\ {k[2] : k \in GetPaymentSchedule(c)} = 1..credits[c].term

\* C14: the principal components of the generated rows of a credit sum up to
\* the credit's principal exactly.
RECURSIVE C14_PrincipalSum(_, _)
C14_PrincipalSum(c, n) ==
    IF n = 0 THEN 0 ELSE schedule[<<c, n>>].principal + C14_PrincipalSum(c, n - 1)

C14_PrincipalSumsToAmount ==
    \A c \in DOMAIN credits :
        ScheduleGenerated(c) => C14_PrincipalSum(c, credits[c].term) = credits[c].amount

\* C15: the amount of the final installment equals its principal component
\* plus its interest component.
C15_FinalAmountRecomputed ==
    \A k \in DOMAIN schedule :
        k[2] = credits[k[1]].term =>
            schedule[k].amount = schedule[k].principal + schedule[k].interest

\* C16: every installment before the final one has principal + interest
\* equal to its amount, which equals the credit's monthly payment.
C16_ComponentsAddUp ==
    \A k \in DOMAIN schedule :
        k[2] < credits[k[1]].term =>
            /\ schedule[k].principal + schedule[k].interest = schedule[k].amount
            /\ schedule[k].amount = credits[k[1]].monthly


\* C17: the commit of a CreateCredit with principal P and term T by the
\* account's owner raises the account's balance by exactly P and appends
\* exactly one credit row of amount P referencing the credit to transactions;
\* at that moment the credit exists with status active and has exactly T
\* schedule rows, all pending.
C17_CommitsCredit(p) ==
    /\ req[p].op = "credit" /\ req[p].user = AccountOwner(req[p].acc)
    /\ pc[p] = "commit" /\ pc'[p] = "done" /\ result'[p] = "ok"

C17_IssuanceEffects ==
    [][\A p \in Procs : C17_CommitsCredit(p) =>
          /\ balance' = [balance EXCEPT ![req[p].acc] = @ + req[p].amt]
          /\ entries' = Append(entries,
                 Entry(req[p].acc, req[p].amt, "credit", CreditRef(req[p].id)))
          /\ EntriesWithRef(CreditRef(req[p].id)) = {}
          /\ req[p].id \in DOMAIN credits'
          /\ credits'[req[p].id].status = "active"
          /\ credits'[req[p].id].amount = req[p].amt
          /\ credits'[req[p].id].account = req[p].acc
          /\ {k \in DOMAIN schedule' : k[1] = req[p].id}
                 = {<<req[p].id, n>> : n \in 1..req[p].term}
          /\ \A n \in 1..req[p].term : schedule'[<<req[p].id, n>>].status = "pending"]_vars

\* a CreateCredit has returned success
C17_Witness ==
    \E p \in Procs :
        /\ req[p].op = "credit" /\ pc[p] = "done" /\ result[p] = "ok"
        /\ Cardinality(EntriesWithRef(CreditRef(req[p].id))) = 1


\* C18: a CreateCredit by the owner with term_months outside [6, 60] or with a
\* principal <= 0 returns a validation error before any transaction opens and
\* changes nothing.
MinTermMonths == 6
MaxTermMonths == 60

C18_InvalidRequest(p) ==
    /\ req[p].op = "credit" /\ req[p].user = AccountOwner(req[p].acc)
    /\ \/ req[p].term \notin MinTermMonths..MaxTermMonths
       \/ req[p].amt <= 0

C18_InvalidTermRejected ==
    \A p \in Procs : C18_InvalidRequest(p) =>
        /\ pc[p] = "done" /\ result[p] = "validation"
        /\ effects[p] = {}


\* C19: a processPayment that read, under the row lock, a balance >= the
\* installment's amount and returned success has debited the account by
\* exactly that amount and appended exactly one credit_payment row of exactly
\* that amount (no penalty) referencing the installment; the installment is
\* paid and its paid_at is set.
C19_CommitsPayment(p) ==
    /\ req[p].op \in {"sched", "pay"}
    /\ pc[p] = "pp_commit" /\ loc'[p].last = "ok"

C19_PaidBranch ==
    [][\A p \in Procs :
          (C19_CommitsPayment(p) /\ loc[p].bal >= schedule[Payment(p)].amount) =>
              /\ balance' = [balance EXCEPT ![PaymentAccount(p)] =
                                 @ - schedule[Payment(p)].amount]
              /\ entries' = Append(entries,
                     Entry(PaymentAccount(p), schedule[Payment(p)].amount,
                           "credit_payment", PaymentRef(Payment(p))))
              /\ schedule'[Payment(p)].status = "paid"
              /\ schedule'[Payment(p)].paidAt # Null]_vars

\* a settlement that found enough money has committed
C19_Witness ==
    \E p \in Procs :
        /\ req[p].op \in {"sched", "pay"} /\ pc[p] = "done"
        /\ loc[p].last = "ok" /\ loc[p].status = "paid"
        /\ \E k \in DOMAIN schedule :
              /\ schedule[k].status = "paid" /\ loc[p].bal >= schedule[k].amount
              /\ C3_Debits(k) # {}

\* C20: a processPayment that read, under the row lock, a balance < the
\* installment's amount and returned success has left every balance unchanged
\* and appended exactly one credit_payment row referencing the installment,
\* whose amount is the installment's amount plus 10 %, rounded to the stored
\* unit; the installment is overdue and its paid_at is unset.
C20_Overdue(p) ==
    /\ C19_CommitsPayment(p)
    /\ loc[p].bal < schedule[Payment(p)].amount

C20_Frame(p) ==
    /\ balance' = balance
    /\ Len(entries') = Len(entries) + 1
    /\ SubSeq(entries', 1, Len(entries)) = entries
    /\ entries'[Len(entries')].account = PaymentAccount(p)
    /\ entries'[Len(entries')].kind = "credit_payment"
    /\ entries'[Len(entries')].ref = PaymentRef(Payment(p))
    /\ schedule'[Payment(p)].status = "overdue"
    /\ schedule'[Payment(p)].paidAt = Null

C20_OverdueBranch ==
    [][\A p \in Procs : C20_Overdue(p) =>
          /\ C20_Frame(p)
          /\ 10 * entries'[Len(entries')].amount - 11 * schedule[Payment(p)].amount
                 \in -5..5]_vars

\* the statement with the penalty taken as exactly 10 % of the amount
C20_OverdueBranchExact ==
    [][\A p \in Procs : C20_Overdue(p) =>
          /\ C20_Frame(p)
          /\ 10 * entries'[Len(entries')].amount = 11 * schedule[Payment(p)].amount]_vars

\* a settlement that found too little money has committed
C20_Witness ==
    \E p \in Procs :
        /\ req[p].op \in {"sched", "pay"} /\ pc[p] = "done"
        /\ loc[p].last = "ok" /\ loc[p].status = "overdue"
        /\ \E k \in DOMAIN schedule :
              /\ schedule[k].status = "overdue" /\ loc[p].bal < schedule[k].amount
              /\ \E i \in C3_Entries(k) : entries[i].amount > schedule[k].amount


\* C21: a processPayment that marked its installment paid leaves the credit
\* paid when every other installment of the credit is paid; and a credit's
\* status is changed by a settlement only when every other installment of
\* the credit is paid.
C21_Returns(p) ==
    /\ SettlementRunning(p) /\ pc[p] # "pp_begin"
    /\ pc'[p] \in {"pp_begin", "done"}

C21_MarkedPaid(p) == "payment_status" \in effects[p] /\ loc[p].status = "paid"

C21_OthersPaid(k) ==
    \A x \in GetPaymentSchedule(k[1]) \ {k} : schedule[x].status = "paid"

C21_CreditPaidWithLastInstallment ==
    [][\A p \in Procs :
          /\ (C21_Returns(p) /\ C21_MarkedPaid(p) /\ C21_OthersPaid(Payment(p)))
                 => credits'[Payment(p)[1]].status = "paid"
          /\ (SettlementRunning(p) /\ pc[p] # "pp_begin"
                  /\ credits'[Payment(p)[1]].status # credits[Payment(p)[1]].status)
                 => C21_OthersPaid(Payment(p))]_vars


\* C22: in a scheduler run every return of processPayment, whatever it
\* returned, takes the run to the next installment of its batch, and after
\* the last installment the run returns nil.
C22_BatchContinues ==
    [][\A p \in Procs : (req[p].op = "sched" /\ C21_Returns(p)) =>
          /\ loc'[p].queue = Tail(loc[p].queue)
          /\ loc'[p].queue # << >> => (pc'[p] = "pp_begin" /\ result'[p] = "none")
          /\ loc'[p].queue = << >> => (pc'[p] = "done" /\ result'[p] = "ok")]_vars

\* the processing of one installment of a batch has failed and the run is
\* about to process the next one
C22_Witness ==
    \E p \in Procs :
        /\ req[p].op = "sched" /\ pc[p] = "pp_begin"
        /\ loc[p].last \notin {"none", "ok"}
        /\ loc[p].queue # << >>


\* C23: a manual payment by the credit's owner picks the pending installment
\* with the smallest payment_number (and fails, changing nothing, when there
\* is none); from there on every change a settlement makes to balances,
\* installments, credits and transactions is the same function of the
\* installment and of the balance read under the lock, whether the settlement
\* belongs to a manual payment or to a scheduler run.
C23_StartsManualPayment(p) ==
    /\ pc[p] \in {"idle", "done"} /\ pc'[p] # pc[p] /\ req'[p].op = "pay"
    /\ credits[req'[p].acc].user = req'[p].user

C23_Selection(p) ==
    LET c == req'[p].acc
    IN  /\ store' = store
        /\ PendingOf(c) = {} => (pc'[p] = "done" /\ result'[p] = "no_pending")
        /\ pc'[p] = "pp_begin" =>
              /\ Len(loc'[p].queue) = 1
              /\ Head(loc'[p].queue) \in PendingOf(c)
              /\ \A x \in PendingOf(c) : Head(loc'[p].queue)[2] <= x[2]
              /\ req'[p].amt >= schedule[Head(loc'[p].queue)].amount

\* the store after the step of a settlement of installment k that read bal
C23_Enough(k, bal) == bal >= schedule[k].amount

C23_StatusWritten(k, bal) ==
    [schedule EXCEPT ![k].status = IF C23_Enough(k, bal) THEN "paid" ELSE "overdue",
                     ![k].paidAt = IF C23_Enough(k, bal) THEN now ELSE Null]

C23_Committed(k, bal) ==
    /\ balance' = [balance EXCEPT ![credits[k[1]].account] =
                       IF C23_Enough(k, bal) THEN @ - schedule[k].amount ELSE @]
    /\ Len(entries') = Len(entries) + 1
    /\ SubSeq(entries', 1, Len(entries)) = entries
    /\ entries'[Len(entries')].account = credits[k[1]].account
    /\ entries'[Len(entries')].kind = "credit_payment"
    /\ entries'[Len(entries')].ref = PaymentRef(k)
    /\ IF C23_Enough(k, bal)
       THEN entries'[Len(entries')].amount = schedule[k].amount
       ELSE 10 * entries'[Len(entries')].amount - 11 * schedule[k].amount \in -5..5
    /\ schedule' = schedule /\ credits' = credits

C23_SameChanges(p) ==
    LET k == Payment(p)
        bal == loc[p].bal
    IN  \/ pc[p] = "pp_status" /\ schedule' = C23_StatusWritten(k, bal)
              /\ balance' = balance /\ entries' = entries /\ credits' = credits
        \/ pc[p] = "pp_credit" /\ credits' = [credits EXCEPT ![k[1]].status = "paid"]
              /\ C23_Enough(k, bal) /\ C21_OthersPaid(k)
              /\ balance' = balance /\ entries' = entries /\ schedule' = schedule
        \/ pc[p] = "pp_commit" /\ C23_Committed(k, bal)

C23_ManualPaymentAsScheduler ==
    [][\A p \in Procs :
          /\ C23_StartsManualPayment(p) => C23_Selection(p)
          /\ (SettlementRunning(p) /\ pc'[p] # pc[p] /\ store' # store)
                 => C23_SameChanges(p)]_vars

\* a manual payment that offered more than the installment has committed the
\* installment's amount, and a scheduler run has committed an installment too
C23_Witness ==
    \E p \in Procs, q \in Procs, k \in DOMAIN schedule :
        /\ req[p].op = "pay" /\ pc[p] = "done" /\ result[p] = "ok"
        /\ req[p].acc = k[1] /\ req[p].amt > schedule[k].amount
        /\ C3_Debits(k) # {}
        /\ req[q].op = "sched" /\ pc[q] = "done" /\ loc[q].last = "ok"


\* C24: a withdrawal by the owner of a positive amount larger than the
\* account's balance ends with the insufficient-funds error in the step that
\* read the balance; the store is unchanged, nothing is buffered in a
\* transaction, and no transaction row of that call ever exists.
C24_StartsWithdraw(p) ==
    /\ pc[p] \in {"idle", "done"} /\ pc'[p] # pc[p] /\ req'[p].op = "withdraw"
    /\ req'[p].amt > 0 /\ AccountOwner(req'[p].acc) = req'[p].user
    /\ req'[p].amt > balance[req'[p].acc]

C24_Refused(p) ==
    /\ req[p].op = "withdraw" /\ pc[p] = "done" /\ result[p] = "insufficient_funds"

C24_OverdrawRefused ==
    [][\A p \in Procs :
          /\ C24_StartsWithdraw(p) =>
                /\ pc'[p] = "done" /\ result'[p] = "insufficient_funds"
                /\ store' = store
                /\ txDelta'[p] = ZeroDelta /\ txEntries'[p] = << >>
          /\ C24_Refused(p) => EntriesWithRef(OpRef(req[p].id)) = {}]_vars

C24_Witness ==
    \E p \in Procs :
        /\ C24_Refused(p)
        /\ req[p].amt > balance[req[p].acc] /\ balance[req[p].acc] > 0


\* C25: the only step of a deposit that changes the store is its commit, and
\* the commit adds exactly the deposited amount to the account's balance,
\* appends exactly one deposit row of that amount for that account, and
\* leaves every other balance, every credit and every schedule row unchanged;
\* a deposit that returned success has exactly one transaction row.
C25_DepositStep(p) == req[p].op = "deposit" /\ pc'[p] # pc[p] /\ pc[p] \notin {"idle", "done"}

C25_Succeeds(p) == C25_DepositStep(p) /\ pc'[p] = "done" /\ result'[p] = "ok"

C25_DepositFrame ==
    [][\A p \in Procs :
          /\ (C25_DepositStep(p) /\ store' # store) => C25_Succeeds(p)
          /\ C25_Succeeds(p) =>
                /\ req[p].amt > 0 /\ AccountOwner(req[p].acc) = req[p].user
                /\ balance' = [balance EXCEPT ![req[p].acc] = @ + req[p].amt]
                /\ entries' = Append(entries,
                                     Entry(req[p].acc, req[p].amt, "deposit", OpRef(req[p].id)))
                /\ EntriesWithRef(OpRef(req[p].id)) = {}
                /\ credits' = credits /\ schedule' = schedule]_vars

\* a deposit committed while another call holds uncommitted work
C25_Witness ==
    \E p \in Procs, q \in Procs :
        /\ p # q
        /\ req[p].op = "deposit" /\ pc[p] = "done" /\ result[p] = "ok"
        /\ Cardinality(EntriesWithRef(OpRef(req[p].id))) = 1
        /\ pc[q] \notin {"idle", "done"}
        /\ credits # << >>


\* C26: a deposit, withdrawal or transfer of a positive amount, or a credit
\* request, made by a user who does not own the (source) account ends with
\* the not-owner error in the step that read the account: nothing in the
\* store changes, nothing is buffered in a transaction, and the call never
\* changes anything afterwards.
C26_OwnerChecked == {"deposit", "withdraw", "transfer", "credit"}

C26_StartsAsStranger(p) ==
    /\ pc[p] \in {"idle", "done"} /\ pc'[p] # pc[p]
    /\ req'[p].op \in C26_OwnerChecked
    /\ req'[p].op # "credit" => req'[p].amt > 0
    /\ AccountOwner(req'[p].acc) # req'[p].user

C26_Refused(p) ==
    /\ req[p].op \in C26_OwnerChecked /\ pc[p] = "done" /\ result[p] = "not_owner"

C26_NotOwnerRefused ==
    [][\A p \in Procs :
          /\ C26_StartsAsStranger(p) =>
                /\ pc'[p] = "done" /\ result'[p] = "not_owner"
                /\ store' = store /\ lock' = lock
                /\ txDelta'[p] = ZeroDelta /\ txEntries'[p] = << >>
          /\ C26_Refused(p) =>
                /\ effects[p] = {}
                /\ EntriesWithRef(OpRef(req[p].id)) = {}]_vars

\* a transfer and a credit request have both been refused to a stranger
C26_Witness ==
    \E p \in Procs, q \in Procs :
        /\ C26_Refused(p) /\ req[p].op = "transfer"
        /\ C26_Refused(q) /\ req[q].op = "credit"


\* C27: a deposit, withdrawal or transfer whose amount is zero or negative
\* ends with the validation error in its first step, whoever the requester
\* is and whatever the account holds (so before the account is read): the
\* store and the locks are unchanged, no transaction is opened, and the call
\* never has a transaction row.
C27_AmountChecked == {"deposit", "withdraw", "transfer"}

C27_StartsWithBadAmount(p) ==
    /\ pc[p] \in {"idle", "done"} /\ pc'[p] # pc[p]
    /\ req'[p].op \in C27_AmountChecked
    /\ req'[p].amt <= 0

C27_Refused(p) ==
    /\ req[p].op \in C27_AmountChecked /\ pc[p] = "done" /\ result[p] = "validation"

C27_BadAmountRefused ==
    [][\A p \in Procs :
          /\ C27_StartsWithBadAmount(p) =>
                /\ pc'[p] = "done" /\ result'[p] = "validation"
                /\ store' = store /\ lock' = lock
                /\ txDelta'[p] = ZeroDelta /\ txEntries'[p] = << >>
          /\ C27_Refused(p) =>
                /\ req[p].amt <= 0 /\ effects[p] = {}
                /\ EntriesWithRef(OpRef(req[p].id)) = {}]_vars

\* a transfer and a withdrawal of a zero amount, asked by a user who does not
\* own the account, have both been refused on the amount
C27_Witness ==
    \E p \in Procs, q \in Procs :
        /\ C27_Refused(p) /\ req[p].op = "transfer"
        /\ C27_Refused(q) /\ req[q].op = "withdraw"
        /\ AccountOwner(req[p].acc) # req[p].user
        /\ AccountOwner(req[q].acc) # req[q].user


\* C28: when the call to the rate source fails, the issuance goes on with the
\* fallback rate 22 plus the margin 5: the request is not refused, the credit
\* row it inserts carries the rate 27 and the monthly payment computed at 27,
\* and the issuance can complete.
C28_RateFailed(p) == req[p].op = "credit" /\ loc[p].cbr = CbrError

C28_StartsWithoutRate(p) ==
    /\ pc[p] \in {"idle", "done"} /\ pc'[p] # pc[p]
    /\ req'[p].op = "credit" /\ loc'[p].cbr = CbrError

C28_FallbackRate ==
    [][\A p \in Procs :
          /\ C28_StartsWithoutRate(p) =>
                /\ pc'[p] = "update" /\ result'[p] = "none"
                /\ loc'[p].rate = 27
                /\ loc'[p].monthly = CalculateMonthlyPayment(req'[p].amt, req'[p].term, 27)
          /\ (C28_RateFailed(p) /\ pc[p] = "credit_insert" /\ credits' # credits) =>
                /\ DOMAIN credits' = DOMAIN credits \cup {req[p].id}
                /\ \A c \in DOMAIN credits : credits'[c] = credits[c]
                /\ credits'[req[p].id].rate = 27
                /\ credits'[req[p].id].monthly = RoundMoney(loc[p].monthly)
                /\ credits'[req[p].id].status = "active"]_vars

\* an issuance whose rate call failed has committed: credit row, complete
\* schedule, disbursement
C28_Witness ==
    \E p \in Procs, c \in DOMAIN credits :
        /\ C28_RateFailed(p) /\ pc[p] = "done" /\ result[p] = "ok"
        /\ c = req[p].id /\ credits[c].rate = 27
        /\ ScheduleGenerated(c)
        /\ EntriesWithRef(CreditRef(req[p].id)) # {}


(* ------------- the life of a credit: issuance to settlement ------------ *)

\* credits of one and of two installments, asked by the account's owner
LifeInputs == {<<1, 100, 1, 1>>, <<1, 100, 2, 1>>}

NextLife ==
    \/ \E p \in Procs :
        \/ \E i \in WithdrawInputs : WithdrawStart(p, i[1], i[2], i[3])
        \/ WithdrawUpdate(p)
        \/ WithdrawInsert(p)
        \/ WithdrawCommit(p)
        \/ \E i \in LifeInputs, cbr \in CbrResults :
               CreditStart(p, i[1], i[2], i[3], i[4], cbr)
        \/ CreditUpdate(p)
        \/ CreditInsert(p)
        \/ CreditSchedule(p)
        \/ CreditEntry(p)
        \/ CreditCommit(p)
        \/ SchedulerStart(p)
        \/ \E c \in DOMAIN credits, i \in PaymentInputs :
               ManualPaymentStart(p, c, i[1], i[2])
        \/ PaymentBegin(p)
        \/ PaymentLock(p)
        \/ PaymentDebit(p)
        \/ PaymentStatus(p)
        \/ PaymentCheck(p)
        \/ PaymentCreditStatus(p)
        \/ PaymentEntry(p)
        \/ PaymentCommit(p)
    \/ Tick

SpecLife == Init /\ [][NextLife]_vars

\* C29: a credit row is never removed; its status changes only from active,
\* and only to paid or overdue; a credit that is paid is paid in every later
\* state, whatever scheduler runs, manual payments and other calls interleave.
C29_StatusOnlyForward ==
    [][\A c \in DOMAIN credits :
          /\ c \in DOMAIN credits'
          /\ credits'[c].status # credits[c].status =>
                /\ credits[c].status = "active"
                /\ credits'[c].status \in {"paid", "overdue"}
          /\ credits[c].status = "paid" => credits'[c].status = "paid"]_vars

\* a settlement is about to write the status of a credit that is already paid
C29_Witness ==
    \E p \in Procs :
        /\ SettlementRunning(p) /\ pc[p] = "pp_credit"
        /\ credits[Payment(p)[1]].status = "paid"


\* C30: the committed transaction rows only grow: in every step, whether a
\* commit, a rollback, a store failure or a deadlock abort, every row that
\* existed before the step exists after it at the same place with the same
\* account, amount, kind and reference.
C30_EntriesAppendOnly ==
    [][/\ Len(entries') >= Len(entries)
       /\ \A i \in DOMAIN entries : entries'[i] = entries[i]]_vars

\* rows were committed, a later call committed more rows, and another call
\* failed after its transaction had started
C30_Witness ==
    \E p \in Procs, q \in Procs :
        /\ p # q
        /\ Len(entries) >= 3
        /\ pc[p] = "done" /\ result[p] = "ok" /\ "entry" \in effects[p]
        /\ pc[q] = "done" /\ result[q] \in {"store_error", "constraint_violation", "deadlock"}


(* -------------- the payment formula at full precision ----------------- *)

\* Natural numbers beyond the machine word, as sequences of limbs, least
\* significant first. float64 carries the payment to about 16 digits; what is
\* observable of it is its value to the hundredth of the stored unit, which
\* is computed here from the exact quotient.
Limb == 1000000

BigOf(x) == IF x < Limb THEN <<x>> ELSE <<x % Limb, x \div Limb>>

BigLimb(b, i) == IF i <= Len(b) THEN b[i] ELSE 0

\* limbs i and up of b * k + carry * Limb^(i-1), for k below 2^31 / Limb
RECURSIVE BigTimesFrom(_, _, _, _)
BigTimesFrom(b, k, i, carry) ==
    IF i > Len(b) THEN (IF carry = 0 THEN << >> ELSE <<carry>>)
    ELSE <<(b[i] * k + carry) % Limb>>
             \o BigTimesFrom(b, k, i + 1, (b[i] * k + carry) \div Limb)

\* b * k
BigTimes(b, k) == BigTimesFrom(b, k, 1, 0)

\* -1, 0, 1 as a is below, equal to, above b
BigCmp(a, b) ==
    LET D == {i \in 1..(Len(a) + Len(b)) : BigLimb(a, i) # BigLimb(b, i)}
        top == CHOOSE i \in D : \A j \in D : j <= i
    IN  IF D = {} THEN 0 ELSE IF BigLimb(a, top) < BigLimb(b, top) THEN -1 ELSE 1

\* limbs i and up of a - b - borrow * Limb^(i-1), for a >= b
RECURSIVE BigMinusFrom(_, _, _, _)
BigMinusFrom(a, b, i, borrow) ==
    IF i > Len(a) THEN << >>
    ELSE <<(a[i] - BigLimb(b, i) - borrow + Limb) % Limb>>
             \o BigMinusFrom(a, b, i + 1,
                             IF a[i] - BigLimb(b, i) - borrow < 0 THEN 1 ELSE 0)

BigMinus(a, b) == BigMinusFrom(a, b, 1, 0)

\* b * x^n
RECURSIVE BigPow(_, _, _)
BigPow(b, x, n) ==
    IF n = 0 \/ Len(b) = 0 THEN b
    ELSE IF n = 1 THEN BigTimes(b, x)
    ELSE BigPow(BigTimes(BigTimes(b, x), x), x, n - 2)

\* the quotient is taken two decimal digits at a time
Centum == 100

\* c < Centum with s * c <= n < s * (c + 1), for n < s * Centum
BigDigit(n, s) == Cardinality({c \in 1..(Centum - 1) : BigCmp(BigTimes(s, c), n) <= 0})

\* floor(n / d) for n < d * Centum^(k+1)
RECURSIVE BigDiv(_, _, _)
BigDiv(n, d, k) ==
    IF k < 0 \/ Len(n) = 0 \/ Len(d) = 0 THEN 0
    ELSE LET s == BigPow(d, Centum, k)
             c == BigDigit(n, s)
         IN  c * (Centum ^ k) + BigDiv(BigMinus(n, BigTimes(s, c)), d, k - 1)

QuotientDigits == 4

\* amount * r * (1+r)^n / ((1+r)^n - 1) with r = interestRate / 12 / 100, in
\* hundredths of the stored unit: with a = 1200 + interestRate,
\* amount * interestRate * a^n / (1200 * (a^n - 1200^n))
AnnuityQuotient(amount, n, interestRate) ==
    BigDiv(BigPow(BigTimes(BigTimes(BigOf(amount), FloatScale), interestRate),
                  1200 + interestRate, n),
           BigTimes(BigMinus(BigPow(<<1>>, 1200 + interestRate, n),
                             BigPow(<<1>>, 1200, n)), 1200),
           QuotientDigits)

\* CreditService.CalculateMonthlyPayment at full precision
MonthlyPaymentShortTerm(amount, termMonths, interestRate) ==
    AnnuityQuotient(amount, termMonths - 1, interestRate)
MonthlyPayment(amount, termMonths, interestRate) ==
    AnnuityQuotient(amount, termMonths, interestRate)

\* credit requests of the size of the sample collection, in stored units
\* (0.01): <<account, principal, term, requester>>; the rate source fails or
\* answers 21
QuoteInputs == {<<1, 10000000, 12, 1>>, <<1, 10000000, 6, 1>>,
                <<2, 5000000, 12, 2>>, <<1, 5000000, 12, 2>>}
QuoteRates == {CbrError, 21}

\* CreditService.CreateCredit up to the monthly payment
CreditQuote(p, a, amount, term, u, cbr) ==
    /\ Begin(p, [ReqNone EXCEPT !.op = "quote", !.acc = a, !.amt = amount,
                                !.term = term, !.user = u])
    /\ IF ~IsOwner(a, u)
       THEN /\ Return(p, "not_owner")
            /\ loc' = [loc EXCEPT ![p] = LocNone]
       ELSE /\ Proceed(p, "quoted")
            /\ loc' = [loc EXCEPT ![p] =
                   [LocNone EXCEPT !.cbr = cbr, !.rate = InterestRate(cbr),
                        !.monthly = MonthlyPayment(amount, term, InterestRate(cbr))]]
    /\ UNCHANGED <<store, lock, now, txDelta, txEntries, faults>>

NextQuote ==
    \E p \in Procs, i \in QuoteInputs, cbr \in QuoteRates :
        CreditQuote(p, i[1], i[2], i[3], i[4], cbr)

SpecQuote == Init /\ [][NextQuote]_vars

C31_Quoted(p, amount, term, rate) ==
    /\ req[p].op = "quote" /\ pc[p] = "quoted"
    /\ req[p].amt = amount /\ req[p].term = term /\ loc[p].rate = rate

\* C31: for principal 100000.00, annual rate 27 (fallback 22 plus margin 5)
\* and term 12 the computed monthly payment is 9601.74 when rounded to two
\* decimals; 9553.01 is the payment the same request gets at annual rate 26
\* (reference rate 21 plus margin 5).
C31_MonthlyPaymentAt27 ==
    \A p \in Procs :
        /\ C31_Quoted(p, 10000000, 12, 27) => RoundMoney(loc[p].monthly) = 960174
        /\ C31_Quoted(p, 10000000, 12, 26) => RoundMoney(loc[p].monthly) = 955301

\* the statement as given: 9553.01 at annual rate 27
C31_MonthlyPaymentAsStated ==
    \A p \in Procs :
        C31_Quoted(p, 10000000, 12, 27) => RoundMoney(loc[p].monthly) = 955301

\* the request of the scenario has been quoted after a failed rate call
C31_Witness ==
    \E p \in Procs :
        /\ C31_Quoted(p, 10000000, 12, 27) /\ loc[p].cbr = CbrError


\* C32: an installment's status changes only from pending, to paid or to
\* overdue; a paid installment keeps its status and its paid_at, and an
\* overdue installment never becomes paid.
C32_StatusOnlyFromPending ==
    [][\A k \in DOMAIN schedule :
          /\ k \in DOMAIN schedule'
          /\ schedule'[k].status # schedule[k].status =>
                /\ schedule[k].status = "pending"
                /\ schedule'[k].status \in {"paid", "overdue"}
          /\ schedule[k].status = "paid" => schedule'[k].paidAt = schedule[k].paidAt]_vars


\* C33: in every reachable state a credit whose status is paid has every one
\* of its schedule rows in status paid.
C33_PaidCreditAllPaid ==
    \A c \in DOMAIN credits :
        credits[c].status = "paid" =>
            \A k \in GetPaymentSchedule(c) : schedule[k].status = "paid"


\* C34: a manual payment that read, under the lock, a balance below the
\* installment's amount ends with the insufficient-funds error and has
\* changed nothing.
C34_FoundTooLittle(p) ==
    /\ req[p].op = "pay" /\ pc[p] = "done"
    /\ loc[p].status = "overdue"

C34_ManualPaymentRefused ==
    \A p \in Procs :
        C34_FoundTooLittle(p) =>
            /\ result[p] = "insufficient_funds"
            /\ effects[p] = {}


\* C35: a card payment that has returned after a failure of its balance
\* update, its entry insert or its commit holds no row lock and no open
\* transaction, and has changed neither balances nor entries.
C35_ReturnedFailed(p) ==
    /\ req[p].op = "card" /\ pc[p] \in {"abandoned", "done"}
    /\ result[p] \in {"store_error", "constraint_violation", "deadlock"}

C35_FailedCardPaymentRolledBack ==
    \A p \in Procs :
        C35_ReturnedFailed(p) =>
            /\ \A a \in Accounts : lock[a] # p
            /\ txDelta[p] = ZeroDelta /\ txEntries[p] = << >>
            /\ effects[p] = {}


\* C36: a step of an operation requested by user U never lowers the balance
\* of an account U does not own, and raises such a balance only as the credit
\* leg of U's committed transfer, by the transferred amount.
C36_UserOps == {"deposit", "withdraw", "transfer", "card", "credit", "pay"}

C36_StepOf(p) == req[p].op \in C36_UserOps /\ pc'[p] # pc[p] /\ pc[p] \notin {"idle", "done"}

C36_ForeignBalancesSafe ==
    [][\A p \in Procs : C36_StepOf(p) =>
          \A a \in Accounts : AccountOwner(a) # req[p].user =>
              /\ balance'[a] >= balance[a]
              /\ balance'[a] > balance[a] =>
                    /\ req[p].op = "transfer" /\ req[p].to = a
                    /\ balance'[a] = balance[a] + req[p].amt
                    /\ result'[p] = "ok"]_vars

\* a transfer to another user's account has committed, and a stranger's
\* request on an account has been refused
C36_Witness ==
    \E p \in Procs, q \in Procs :
        /\ req[p].op = "transfer" /\ pc[p] = "done" /\ result[p] = "ok"
        /\ AccountOwner(req[p].to) # req[p].user
        /\ req[q].op \in {"withdraw", "card", "pay"} /\ pc[q] = "done"
        /\ result[q] \in {"not_owner", "not_found"}


(* ------------- settlement of a credit that is already issued ---------- *)

\* the store after user 1 was issued a credit of 100 over 2 months on account
\* 1 (balance 100 before) and, in one of the two initial states, withdrew
\* everything afterwards
IssuedMonthly == CalculateMonthlyPayment(100, 2, 27)

IssuedCredits ==
    (MaxOps + 1) :> CreditRow(1, 1, 100, 2, 27, IssuedMonthly, 0)

IssuedSchedule ==
    (<<MaxOps + 1, 1>> :> ScheduleRow(100 * FloatScale, IssuedMonthly, 27, 1, 2, 0))
    @@ (<<MaxOps + 1, 2>> :>
           ScheduleRow(100 * FloatScale
                           - PrincipalPart(100 * FloatScale, IssuedMonthly, 27, 1, 2),
                       IssuedMonthly, 27, 2, 2, 0))

IssuedEntries == <<Entry(1, 100, "credit", CreditRef(MaxOps + 1))>>
WithdrawnEntries == IssuedEntries \o <<Entry(1, 200, "withdrawal", OpRef(MaxOps + 2))>>

InitIssued ==
    /\ \/ /\ balance = [a \in Accounts |-> IF a = 1 THEN 200 ELSE 100]
          /\ entries = IssuedEntries
       \/ /\ balance = [a \in Accounts |-> IF a = 1 THEN 0 ELSE 100]
          /\ entries = WithdrawnEntries
    /\ credits = IssuedCredits
    /\ schedule = IssuedSchedule
    /\ lock = [a \in Accounts |-> NoProc]
    /\ now = 0
    /\ pc = [p \in Procs |-> "idle"]
    /\ req = [p \in Procs |-> ReqNone]
    /\ loc = [p \in Procs |-> LocNone]
    /\ txDelta = [p \in Procs |-> ZeroDelta]
    /\ txEntries = [p \in Procs |-> << >>]
    /\ result = [p \in Procs |-> "none"]
    /\ effects = [p \in Procs |-> {}]
    /\ nops = 0
    /\ faults = 0

NextIssued ==
    \/ \E p \in Procs :
        \/ \E i \in DepositInputs : DepositStart(p, i[1], i[2], i[3])
        \/ DepositUpdate(p)
        \/ DepositInsert(p)
        \/ DepositCommit(p)
        \/ SchedulerStart(p)
        \/ \E c \in DOMAIN credits, i \in PaymentInputs :
               ManualPaymentStart(p, c, i[1], i[2])
        \/ PaymentBegin(p)
        \/ PaymentLock(p)
        \/ PaymentDebit(p)
        \/ PaymentStatus(p)
        \/ PaymentCheck(p)
        \/ PaymentCreditStatus(p)
        \/ PaymentEntry(p)
        \/ PaymentCommit(p)
    \/ Tick

SpecIssued == InitIssued /\ [][NextIssued]_vars

\* C37: a scheduler run and a manual payment select only pending
\* installments; an installment that is marked overdue is not debited; and a
\* credit is not set paid while one of its installments is overdue.
C37_Selects(p) ==
    /\ pc[p] \in {"idle", "done"} /\ pc'[p] = "pp_begin"
    /\ req'[p].op \in {"sched", "pay"}

C37_Debits(p) ==
    /\ SettlementRunning(p) /\ pc[p] = "pp_debit" /\ pc'[p] = "pp_status"

C37_OverdueIsFinal ==
    [][/\ \A p \in Procs :
             /\ C37_Selects(p) =>
                    \A i \in DOMAIN loc'[p].queue :
                        schedule[loc'[p].queue[i]].status = "pending"
             /\ C37_Debits(p) => schedule[Payment(p)].status # "overdue"
       /\ \A c \in DOMAIN credits :
             (credits[c].status # "paid" /\ credits'[c].status = "paid") =>
                 \A k \in GetPaymentSchedule(c) :
                     schedule[k].status # "overdue" /\ schedule'[k].status # "overdue"]_vars


(* ------------------------ progress of the calls ----------------------- *)

\* the statements of a call in flight; the goroutine that runs the call is
\* scheduled again and again, and a statement that waits for a row lock goes
\* on once the lock is free
LifeStep(p) ==
    \/ WithdrawUpdate(p)
    \/ WithdrawInsert(p)
    \/ WithdrawCommit(p)
    \/ CreditUpdate(p)
    \/ CreditInsert(p)
    \/ CreditSchedule(p)
    \/ CreditEntry(p)
    \/ CreditCommit(p)
    \/ PaymentBegin(p)
    \/ PaymentLock(p)
    \/ PaymentDebit(p)
    \/ PaymentStatus(p)
    \/ PaymentCheck(p)
    \/ PaymentCreditStatus(p)
    \/ PaymentEntry(p)
    \/ PaymentCommit(p)

SpecLifeFair == SpecLife /\ \A p \in Procs : WF_vars(LifeStep(p))

C38_RunStarts(p) ==
    /\ pc[p] \in {"idle", "done"} /\ pc'[p] # pc[p] /\ req'[p].op = "sched"

C38_RunStep(p) == req[p].op = "sched" /\ pc[p] \notin {"idle", "done"} /\ pc'[p] # pc[p]

\* the rows the run has still to process were pending and due when it started
C38_BatchSelected(p) ==
    \A i \in DOMAIN loc'[p].queue :
        /\ schedule[loc'[p].queue[i]].status = "pending"
        /\ schedule[loc'[p].queue[i]].due <= now
        /\ \A j \in DOMAIN loc'[p].queue : loc'[p].queue[j] = loc'[p].queue[i] => j = i

C38_BatchComplete(p) ==
    \A k \in DOMAIN schedule :
        (schedule[k].status = "pending" /\ schedule[k].due <= now)
            => \E i \in DOMAIN loc'[p].queue : loc'[p].queue[i] = k

\* C38: every scheduler run terminates. Its batch is exactly the installments
\* that are pending and due when it starts; it works the batch off row by row
\* to the end; a row whose processing returned without error is paid or
\* overdue from then on; and the run changes no schedule row, credit or
\* balance other than those of the row it is processing.
C38_RunSettlesItsBatch ==
    /\ [][\A p \in Procs :
             /\ C38_RunStarts(p) => (C38_BatchSelected(p) /\ C38_BatchComplete(p))
             /\ C38_RunStep(p) =>
                   /\ loc'[p].queue \in {loc[p].queue, Tail(loc[p].queue)}
                   /\ pc'[p] = "done" => loc'[p].queue = << >>
                   /\ (loc'[p].queue # loc[p].queue /\ loc'[p].last = "ok")
                          => schedule'[Payment(p)].status \in {"paid", "overdue"}
                   /\ \A k \in DOMAIN schedule : k # Payment(p) => schedule'[k] = schedule[k]
                   /\ \A c \in DOMAIN credits : c # Payment(p)[1] => credits'[c] = credits[c]
                   /\ \A a \in Accounts : a # PaymentAccount(p) => balance'[a] = balance[a]
             /\ \A k \in DOMAIN schedule :
                   schedule[k].status # "pending" => schedule'[k].status # "pending"]_vars
    /\ \A p \in Procs : (req[p].op = "sched" /\ pc[p] # "done") ~> (pc[p] = "done")

\* a run whose batch had two installments has ended, and an installment that
\* was not due is still pending
C38_Witness ==
    \E p \in Procs, k \in DOMAIN schedule, x \in DOMAIN schedule, y \in DOMAIN schedule :
        /\ req[p].op = "sched" /\ pc[p] = "done" /\ result[p] = "ok"
        /\ k # x /\ schedule[k].due <= now /\ schedule[x].due <= now
        /\ schedule[k].status # "pending" /\ schedule[x].status # "pending"
        /\ PaymentRef(k) \in {entries[i].ref : i \in DOMAIN entries}
        /\ PaymentRef(x) \in {entries[i].ref : i \in DOMAIN entries}
        /\ schedule[y].due > now /\ schedule[y].status = "pending"


\* C39: the commit of a transfer leaves the sum of all balances as it was and
\* appends two transfer rows of the amount, one on the source and one on the
\* destination; when source and destination are the same account, every
\* balance is as before and both rows are on that account.
RECURSIVE C39_Sum(_, _)
C39_Sum(b, as) ==
    IF as = {} THEN 0
    ELSE LET a == CHOOSE x \in as : TRUE IN b[a] + C39_Sum(b, as \ {a})

C39_CommitsTransfer(p) ==
    /\ req[p].op = "transfer"
    /\ pc[p] = "commit" /\ pc'[p] = "done" /\ result'[p] = "ok"

C39_TransferKeepsTotal ==
    [][\A p \in Procs : C39_CommitsTransfer(p) =>
          /\ C39_Sum(balance', Accounts) = C39_Sum(balance, Accounts)
          /\ Len(entries') = Len(entries) + 2
          /\ SubSeq(entries', 1, Len(entries)) = entries
          /\ \A i \in {Len(entries) + 1, Len(entries) + 2} :
                entries'[i].kind = "transfer" /\ entries'[i].amount = req[p].amt
          /\ entries'[Len(entries) + 1].account = req[p].acc
          /\ entries'[Len(entries) + 2].account = req[p].to
          /\ req[p].acc = req[p].to => balance' = balance]_vars

\* a transfer from an account to itself has committed with its two rows
C39_Witness ==
    \E p \in Procs :
        /\ req[p].op = "transfer" /\ req[p].acc = req[p].to
        /\ pc[p] = "done" /\ result[p] = "ok"
        /\ Cardinality({i \in EntriesWithRef(OpRef(req[p].id)) :
                            entries[i].account = req[p].acc}) = 2

=============================================================================
